---------------------------- MODULE Spec2Model ----------------------------
(***************************************************************************)
(* Model of markitdown-pdfminersix-vlm.                                    *)
(*                                                                         *)
(* Part I  : EPdfConverter.convert, the concurrent page-range pipeline     *)
(*           (markitdown_pdfminersix_vlm/_plugin.py), specification Spec.  *)
(* Part II : PDFLayoutAnalyzer.paint_path, the path classifier             *)
(*           (utils/converter.py), specification PaintSpec.                *)
(***************************************************************************)
EXTENDS Integers, Sequences, FiniteSets, TLC

(***************************************************************************)
(* Bounds of the model.                                                    *)
(***************************************************************************)
MaxPages == 3
MaxChunk == 2
MaxWorkers == 2
MaxCoord == 1
MaxItems == 2
MaxPageno == 1
MaxChildren == 3
MaxRangePages == 2

(***************************************************************************)
(* Python's None, as stored in the result buffer.                          *)
(***************************************************************************)
None == <<"None">>

VARIABLES
    doc,                  \* the input document: [readable, count, pages]
    chunk,                \* config.MAX_PAGES_PER_THREAD
    pool,                 \* config.MAX_CONCURRENT_THREADS
    pc,                   \* position of convert
    num_pages,            \* local of convert
    page_number,          \* loop variable of the submit loop
    futures,              \* the submitted futures, in submission order
    future_to_page_range, \* future index -> start page of its range
    results,              \* the result buffer
    yielded,              \* futures as_completed has yielded, in that order
    retval,               \* what convert returned, once it has
    errors,               \* number of logger.error calls and error prints
    file_reads,           \* number of file_stream.read() calls of convert
    bytes_io,             \* number of io.BytesIO objects convert has built
    ctm,                  \* PDFLayoutAnalyzer.ctm, the active transform matrix
    cur_item,             \* PDFLayoutAnalyzer.cur_item, the current container
    stack,                \* PDFLayoutAnalyzer._stack, the enclosing containers
    path,                 \* the path handed to paint_path
    painted,              \* paint_path has been called on path
    pageno,               \* PDFLayoutAnalyzer.pageno
    outfp,                \* the text written to TextConverter.outfp
    imagewriter,          \* TextConverter.imagewriter is not None
    imagesummarizer,      \* TextConverter.imagesummarizer, the image hook
    summarized,           \* the paths summarize_file was called with
    received,             \* number of receive_layout calls
    call,                 \* the last device method called and its outcome
    get_pages,            \* the pages PDFPage.get_pages yields: their contents
    processed,            \* number of pages extract_text_to_fp has processed
    extracted             \* what extract_text returned or raised, once it has

pipeVars == <<doc, chunk, pool, pc, num_pages, page_number, futures,
              future_to_page_range, results, yielded, retval, errors,
              file_reads, bytes_io>>
runVars == <<get_pages, processed, extracted>>
devVars == <<ctm, cur_item, stack, path, painted, pageno, outfp, imagewriter,
             imagesummarizer, summarized, received, call, runVars>>
vars == <<pipeVars, devVars>>

(***************************************************************************)
(* Text.  A text is a sequence of one-character strings.                   *)
(***************************************************************************)
PageChars == <<"a", "b", "c", "d", "e", "f">>

\* The text TextConverter writes for page p: its characters, then "\f".
PageText(p) == <<PageChars[p + 1], "\f">>

\* extract_text(fp, page_numbers=range(lo, hi)): PDFPage.get_pages yields the
\* pages that exist in the document and are in page_numbers, in page order.
RECURSIVE extract_text(_, _, _)
extract_text(pages, lo, hi) ==
    IF lo >= hi THEN <<>>
    ELSE (IF lo < pages THEN PageText(lo) ELSE <<>>)
         \o extract_text(pages, lo + 1, hi)

\* get_pdf_pages_count: the catalog's Count, or 0 after any exception.
get_pdf_pages_count(d) == IF d.readable THEN d.count ELSE 0

\* "\n".join(rs) for a list of strings.
RECURSIVE Join(_)
Join(rs) ==
    IF Len(rs) = 0 THEN <<>>
    ELSE IF Len(rs) = 1 THEN rs[1]
    ELSE rs[1] \o <<"\n">> \o Join(Tail(rs))

\* The slot of the result buffer a future's text is stored in (0-based).
Slot(page_range_start, c) == page_range_start \div c

\* PageRange without the min(): the last range runs past the document.
PageRangeUnclamped(start, c, n) == [lo |-> start, hi |-> start + c]

\* The page range handed to the unit that starts at page_number.
PageRange(start, c, n) == [lo |-> start, hi |-> IF start + c < n THEN start + c ELSE n]

\* The device of a run that is about convert alone: no page begun, no path.
Identity == <<1, 0, 0, 1, 0, 0>>
LTPage == [kind |-> "LTPage", objs |-> <<>>]

\* A device method was called: its name, what it returned (<<>> for None,
\* <<x>> for the number x) and the exception it raised ("" for none).
NoCall == [op |-> "", returned |-> <<>>, raised |-> ""]

\* extract_text has not been called.
NoExtract ==
    /\ get_pages = <<>>
    /\ processed = 0
    /\ extracted = [kind |-> "unset", text |-> <<>>]

\* TextConverter.__init__ with outfp an empty StringIO: nothing written, no
\* page emitted, pageno at its default.
NoOutput ==
    /\ pageno = 1
    /\ outfp = <<>>
    /\ imagewriter = FALSE
    /\ imagesummarizer = "None"
    /\ summarized = <<>>
    /\ received = 0
    /\ call = NoCall
    /\ NoExtract

NoDevice ==
    /\ ctm = Identity
    /\ cur_item = LTPage
    /\ stack = <<>>
    /\ path = <<>>
    /\ painted = FALSE
    /\ NoOutput

Documents ==
    { [readable |-> r, count |-> n, pages |-> p] :
        r \in BOOLEAN, n \in 0..MaxPages, p \in 0..MaxPages }

Init ==
    /\ doc \in { d \in Documents : ~d.readable => (d.count = 0 /\ d.pages = 0) }
    /\ chunk \in 1..MaxChunk
    /\ pool \in 1..MaxWorkers
    /\ pc = "start"
    /\ num_pages = 0
    /\ page_number = 0
    /\ futures = <<>>
    /\ future_to_page_range = <<>>
    /\ results = <<>>
    /\ yielded = <<>>
    /\ retval = [kind |-> "unset", markdown |-> <<>>]
    /\ errors = 0
    /\ file_reads = 0
    /\ bytes_io = 0
    /\ NoDevice


(***************************************************************************)
(* convert, lines 74-118.                                                  *)
(***************************************************************************)
\* What convert hands back: a DocumentConverterResult, or None when the
\* outer handler swallowed an exception and the function fell off its end.
DocumentConverterResult(output) == [kind |-> "DocumentConverterResult", markdown |-> output]
ReturnedNone == [kind |-> "None", markdown |-> <<>>]

\* NewResults with one slot too many.
NewResultsOneExtra(n) == [i \in 1..(n + 1) |-> None]

\* results = [None] * n
NewResults(n) == [i \in 1..n |-> None]

\* StoreResult keyed by arrival: the text goes to the next free position.
StoreResultByArrival(rs, arrived, page_range_start, c, page_text) ==
    IF page_text # <<>>
    THEN [rs EXCEPT ![Len(arrived) + 1] = page_text]
    ELSE rs

\* Lines 99-102: a truthy page_text is stored at its range's slot; an empty
\* one leaves the slot as it is.  arrived: the futures yielded before this one.
StoreResult(rs, arrived, page_range_start, c, page_text) ==
    IF page_text # <<>>
    THEN [rs EXCEPT ![Slot(page_range_start, c) + 1] = page_text]
    ELSE rs

\* Line 111: "\n".join(results) raises TypeError when a slot is None.
JoinRaises(rs) == \E i \in 1..Len(rs) : rs[i] = None

Done == {"finished", "raised", "timeout"}
Yielded == { yielded[k] : k \in 1..Len(yielded) }
Busy(fs) == { i \in 1..Len(fs) : fs[i].state \in {"running", "hung"} }

\* The stream objects: the caller's file_stream, and the io.BytesIO objects
\* convert builds, numbered in the order they are constructed.
FileStream == [obj |-> "file_stream", id |-> 0]

\* The unit is handed the caller's stream instead of a stream of its own.
BytesIOCallerStream(built) == FileStream

\* Line 84: io.BytesIO(file_content) is a new object each time it is called.
BytesIO(built) == [obj |-> "BytesIO", id |-> built + 1]

\* Lines 77-81.  get_pdf_pages_count prints the error it swallows; the
\* document bytes are then read from file_stream.
GetPagesCount ==
    /\ pc = "start"
    /\ num_pages' = get_pdf_pages_count(doc)
    /\ errors' = IF doc.readable THEN errors ELSE errors + 1
    /\ page_number' = 0
    /\ pc' = "submit"
    /\ UNCHANGED <<doc, chunk, pool, futures, future_to_page_range, results,
                   yielded, retval>>
    /\ UNCHANGED devVars
    /\ file_reads' = file_reads + 1
    /\ UNCHANGED bytes_io

\* Lines 83-90, one iteration of the submit loop.
SubmitUnit ==
    /\ pc = "submit"
    /\ page_number < num_pages
    /\ futures' = Append(futures,
                         [state |-> "pending",
                          page_numbers |-> PageRange(page_number, chunk, num_pages),
                          stream |-> BytesIO(bytes_io),
                          text |-> <<>>])
    /\ future_to_page_range' = Append(future_to_page_range, page_number)
    /\ page_number' = page_number + chunk
    /\ UNCHANGED <<doc, chunk, pool, pc, num_pages, results, yielded, retval, errors>>
    /\ UNCHANGED devVars
    /\ bytes_io' = bytes_io + 1
    /\ UNCHANGED file_reads

\* Line 93, reached when range(0, num_pages, chunk) is exhausted.
AllocResults ==
    /\ pc = "submit"
    /\ page_number >= num_pages
    /\ results' = NewResults(Len(future_to_page_range))
    /\ pc' = "assemble"
    /\ UNCHANGED <<doc, chunk, pool, num_pages, page_number, futures,
                   future_to_page_range, yielded, retval, errors>>
    /\ UNCHANGED devVars
    /\ UNCHANGED <<file_reads, bytes_io>>

\* ThreadPoolExecutor: a free thread takes the oldest queued work item.
WorkerStart(i) ==
    /\ futures[i].state = "pending"
    /\ \A j \in 1..(i - 1) : futures[j].state # "pending"
    /\ Cardinality(Busy(futures)) < pool
    /\ futures' = [futures EXCEPT ![i].state = "running"]
    /\ UNCHANGED <<doc, chunk, pool, pc, num_pages, page_number,
                   future_to_page_range, results, yielded, retval, errors>>
    /\ UNCHANGED devVars
    /\ UNCHANGED <<file_reads, bytes_io>>

\* extract_text returns the text of the unit's pages.
WorkerReturn(i) ==
    /\ futures[i].state = "running"
    /\ futures' = [futures EXCEPT
                     ![i].state = "finished",
                     ![i].text = extract_text(doc.pages, futures[i].page_numbers.lo,
                                              futures[i].page_numbers.hi)]
    /\ UNCHANGED <<doc, chunk, pool, pc, num_pages, page_number,
                   future_to_page_range, results, yielded, retval, errors>>
    /\ UNCHANGED devVars
    /\ UNCHANGED <<file_reads, bytes_io>>

\* extract_text raises: "raised" for any exception, "timeout" for one that
\* is a concurrent.futures.TimeoutError, the only way line 99 can raise it
\* since as_completed yields finished futures only.
WorkerRaise(i) ==
    /\ futures[i].state = "running"
    /\ \E how \in {"raised", "timeout"} :
          futures' = [futures EXCEPT ![i].state = how]
    /\ UNCHANGED <<doc, chunk, pool, pc, num_pages, page_number,
                   future_to_page_range, results, yielded, retval, errors>>
    /\ UNCHANGED devVars
    /\ UNCHANGED <<file_reads, bytes_io>>

\* extract_text never returns (a stuck parse, a model call that never answers).
WorkerHang(i) ==
    /\ futures[i].state = "running"
    /\ futures' = [futures EXCEPT ![i].state = "hung"]
    /\ UNCHANGED <<doc, chunk, pool, pc, num_pages, page_number,
                   future_to_page_range, results, yielded, retval, errors>>
    /\ UNCHANGED devVars
    /\ UNCHANGED <<file_reads, bytes_io>>

\* Lines 96-108, one iteration of the as_completed loop: as_completed
\* (called without a timeout) blocks until some future not yet yielded is
\* done, in whatever order the futures complete.
AssembleFuture(i) ==
    /\ pc = "assemble"
    /\ i \notin Yielded
    /\ futures[i].state \in Done
    /\ yielded' = Append(yielded, i)
    /\ CASE futures[i].state = "finished" ->
              /\ results' = StoreResult(results, yielded, future_to_page_range[i],
                                        chunk, futures[i].text)
              /\ UNCHANGED <<pc, retval, errors>>
         [] futures[i].state = "timeout" ->
              /\ errors' = errors + 1
              /\ UNCHANGED <<pc, retval, results>>
         [] futures[i].state = "raised" ->
              \* not a FuturesTimeoutError: lines 115-118
              /\ errors' = errors + 1
              /\ retval' = ReturnedNone
              /\ pc' = "returned"
              /\ UNCHANGED results
    /\ UNCHANGED <<doc, chunk, pool, num_pages, page_number, futures,
                   future_to_page_range>>
    /\ UNCHANGED devVars
    /\ UNCHANGED <<file_reads, bytes_io>>

\* Lines 111-118, reached when as_completed has yielded every future.
CombineResults ==
    /\ pc = "assemble"
    /\ Yielded = 1..Len(futures)
    /\ IF JoinRaises(results)
       THEN /\ errors' = errors + 1
            /\ retval' = ReturnedNone
       ELSE /\ retval' = DocumentConverterResult(Join(results))
            /\ UNCHANGED errors
    /\ pc' = "returned"
    /\ UNCHANGED <<doc, chunk, pool, num_pages, page_number, futures,
                   future_to_page_range, results, yielded>>
    /\ UNCHANGED devVars
    /\ UNCHANGED <<file_reads, bytes_io>>

Next ==
    \/ GetPagesCount
    \/ SubmitUnit
    \/ AllocResults
    \/ \E i \in 1..Len(futures) : WorkerStart(i)
    \/ \E i \in 1..Len(futures) : WorkerReturn(i)
    \/ \E i \in 1..Len(futures) : WorkerRaise(i)
    \/ \E i \in 1..Len(futures) : WorkerHang(i)
    \/ \E i \in 1..Len(futures) : AssembleFuture(i)
    \/ CombineResults

Spec == Init /\ [][Next]_vars

\* The interpreter runs every thread that can run: convert and each worker
\* take their next step when they have one.
FairSpec == Init /\ [][Next]_vars /\ WF_vars(Next)


(***************************************************************************)
(* Part II.  PDFLayoutAnalyzer.paint_path, utils/converter.py lines        *)
(* 102-218.  A path is a sequence of segments [op, args]: the operator     *)
(* letter and its operands, as in the tuples ("m", x, y), ("l", x, y),     *)
(* ("c", x1, y1, x2, y2, x3, y3), ("h",).  The graphic state, stroke, fill *)
(* and evenodd are handed through to the item unread and are left out.     *)
(***************************************************************************)
\* apply_matrix_pt that leaves the point where it is.
apply_matrix_pt_unapplied(m, v) == v

\* pdfminer.utils.apply_matrix_pt: the affine map (a, b, c, d, e, f) on (x, y).
apply_matrix_pt(m, v) ==
    <<m[1] * v[1] + m[3] * v[2] + m[5], m[2] * v[1] + m[4] * v[2] + m[6]>>

\* Line 111: shape = "".join(x[0] for x in path)
shape_of(p) == [i \in 1..Len(p) |-> p[i].op]

\* shape.count("m")
CountM(shape) == Cardinality({ i \in 1..Len(shape) : shape[i] = "m" })

\* p[-2:], the last two operands of a segment
Last2(args) == <<args[Len(args) - 1], args[Len(args)]>>

\* zip(operation[1::2], operation[2::2]): the operands taken in pairs
Pairs(args) == [k \in 1..(Len(args) \div 2) |-> <<args[2 * k - 1], args[2 * k]>>]

\* The first position at or after i that holds an "m", or Len(shape) + 1.
RECURSIVE RunEnd(_, _)
RunEnd(shape, i) ==
    IF i > Len(shape) \/ shape[i] = "m" THEN i ELSE RunEnd(shape, i + 1)

\* finditer with the pattern m[^m]*: a lone "m" is a match of its own.
RECURSIVE finditer_star(_, _)
finditer_star(shape, i) ==
    IF i > Len(shape) THEN <<>>
    ELSE IF shape[i] = "m"
         THEN <<[first |-> i, last |-> RunEnd(shape, i + 1) - 1]>>
              \o finditer_star(shape, RunEnd(shape, i + 1))
         ELSE finditer_star(shape, i + 1)

\* Line 124: re.finditer(r"m[^m]+", shape) scanning from position i: the
\* matches from left to right, each an "m" and the one or more operators
\* other than "m" that follow it (positions first..last, 1-based).
RECURSIVE finditer(_, _)
finditer(shape, i) ==
    IF i > Len(shape) THEN <<>>
    ELSE IF shape[i] = "m" /\ i < Len(shape) /\ shape[i + 1] # "m"
         THEN <<[first |-> i, last |-> RunEnd(shape, i + 1) - 1]>>
              \o finditer(shape, RunEnd(shape, i + 1))
         ELSE finditer(shape, i + 1)

\* Line 136: the position of each operator; that of "h" is the start point.
raw_pts(p) ==
    [i \in 1..Len(p) |->
        IF p[i].op # "h" THEN Last2(p[i].args) ELSE Last2(p[1].args)]

\* Lines 139-147: the operators with their operands mapped to device space.
transformed_path(m, p) ==
    [i \in 1..Len(p) |->
        [op |-> p[i].op,
         pts |-> [k \in 1..(Len(p[i].args) \div 2) |->
                     apply_matrix_pt(m, Pairs(p[i].args)[k])]]]

\* The line-150 test with pts[-1] in place of pts[-2].
redundant_l_last(shape, pts) ==
    /\ Len(shape) > 3
    /\ SubSeq(shape, Len(shape) - 1, Len(shape)) = <<"l", "h">>
    /\ pts[Len(pts)] = pts[1]

\* Line 150: a redundant "l" on a path closed with "h".
redundant_l(shape, pts) ==
    /\ Len(shape) > 3
    /\ SubSeq(shape, Len(shape) - 1, Len(shape)) = <<"l", "h">>
    /\ pts[Len(pts) - 1] = pts[1]

\* Line 176
is_closed_loop(pts) == pts[1] = pts[5]

\* The right-angle test without its second pattern.
has_square_coordinates_first(pts) ==
    /\ pts[1][1] = pts[2][1]
    /\ pts[2][2] = pts[3][2]
    /\ pts[3][1] = pts[4][1]
    /\ pts[4][2] = pts[1][2]

\* Lines 177-179
has_square_coordinates(pts) ==
    \/ /\ pts[1][1] = pts[2][1]
       /\ pts[2][2] = pts[3][2]
       /\ pts[3][1] = pts[4][1]
       /\ pts[4][2] = pts[1][2]
    \/ /\ pts[1][2] = pts[2][2]
       /\ pts[2][1] = pts[3][1]
       /\ pts[3][2] = pts[4][2]
       /\ pts[4][1] = pts[1][1]

\* The items paint_path creates.  An LTRect is given the box
\* (*pts[0], *pts[2]), kept here as its two corners.
LTLine(p0, p1, tp) == [kind |-> "LTLine", pts |-> <<p0, p1>>, original_path |-> tp]
LTRect(p0, p2, tp) == [kind |-> "LTRect", pts |-> <<p0, p2>>, original_path |-> tp]
LTCurve(pts, tp) == [kind |-> "LTCurve", pts |-> pts, original_path |-> tp]

\* Lines 128-218, the branch for one subpath: the items added to cur_item.
paint_subpath(m, p) ==
    LET shape0 == shape_of(p)
        pts0 == [i \in 1..Len(p) |-> apply_matrix_pt(m, raw_pts(p)[i])]
        tp == transformed_path(m, p)
        drop == redundant_l(shape0, pts0)
        shape == IF drop THEN SubSeq(shape0, 1, Len(shape0) - 2) \o <<"h">> ELSE shape0
        pts == IF drop THEN SubSeq(pts0, 1, Len(pts0) - 1) ELSE pts0
    IN  IF shape \in {<<"m", "l", "h">>, <<"m", "l">>}
        THEN <<LTLine(pts[1], pts[2], tp)>>
        ELSE IF shape \in {<<"m", "l", "l", "l", "h">>, <<"m", "l", "l", "l", "l">>}
        THEN IF is_closed_loop(pts) /\ has_square_coordinates(pts)
             THEN <<LTRect(pts[1], pts[3], tp)>>
             ELSE <<LTCurve(pts, tp)>>
        ELSE <<LTCurve(pts, tp)>>

\* The slice starts after the match's "m".
subpath_after_moveto(p, match) == SubSeq(p, match.first + 1, match.last)

\* Line 125: path[m.start(0):m.end(0)].
subpath(p, match) == SubSeq(p, match.first, match.last)

RECURSIVE paint_path(_, _)
RECURSIVE paint_matches(_, _, _)

\* Lines 124-126: the recursive call on each match's slice of the path.
paint_matches(m, p, ms) ==
    IF ms = <<>> THEN <<>>
    ELSE paint_path(m, subpath(p, ms[1]))
         \o paint_matches(m, p, Tail(ms))

\* Only the empty path and a path that starts with "h" are taken as invalid.
invalid_shape_h_only(shape) == Len(shape) = 0 \/ shape[1] = "h"

\* Line 113: shape[:1] != "m".
invalid_shape(shape) == Len(shape) = 0 \/ shape[1] # "m"

\* Lines 111-218: the items one call of paint_path adds to cur_item, in order.
paint_path(m, p) ==
    LET shape == shape_of(p)
    IN  IF invalid_shape(shape) THEN <<>>
        ELSE IF CountM(shape) > 1 THEN paint_matches(m, p, finditer(shape, 1))
        ELSE paint_subpath(m, p)

\* The inputs: matrices, points of a small grid, and paths of chosen shapes.
Shear == <<1, 1, 0, 1, 0, 0>>
Flat == <<1, 0, 0, 0, 0, 0>>
Matrices == {Identity, Shear, Flat}

Points == (0..MaxCoord) \X {0, 1}

\* The segments with operator op: "h" has no operand, "c" two control
\* points (fixed here) and an end point, "m" and "l" a point.
Segments(op) ==
    CASE op = "h" -> { [op |-> "h", args |-> <<>>] }
      [] op = "c" -> { [op |-> "c", args |-> <<0, 1, 1, 0, pt[1], pt[2]>>] : pt \in Points }
      [] OTHER -> { [op |-> op, args |-> <<pt[1], pt[2]>>] : pt \in Points }

RECURSIVE PathsOfShape(_)
PathsOfShape(sh) ==
    IF sh = <<>> THEN { <<>> }
    ELSE { <<seg>> \o rest : seg \in Segments(sh[1]), rest \in PathsOfShape(Tail(sh)) }

Shapes ==
    { <<>>, <<"l">>, <<"h">>, <<"l", "m">>, <<"l", "m", "l">>,
      <<"m">>, <<"m", "l">>, <<"m", "h">>, <<"m", "c">>,
      <<"m", "l", "h">>, <<"m", "l", "l">>, <<"m", "c", "h">>,
      <<"m", "l", "l", "h">>, <<"m", "l", "l", "l">>,
      <<"m", "l", "l", "l", "h">>, <<"m", "l", "l", "l", "l">>,
      <<"m", "l", "c", "l", "h">>,
      <<"m", "l", "l", "l", "l", "h">>,
      <<"m", "m">>, <<"m", "l", "m">>, <<"m", "m", "l">>, <<"m", "h", "m", "l">>,
      <<"m", "l", "m", "l">>, <<"m", "l", "m", "l", "l">>,
      <<"m", "l", "h", "m", "l", "l", "h">> }

Paths == UNION { PathsOfShape(sh) : sh \in Shapes }

\* convert is not running while the device is looked at on its own.
NoPipeline ==
    /\ doc = [readable |-> TRUE, count |-> 0, pages |-> 0]
    /\ chunk = 1
    /\ pool = 1
    /\ pc = "idle"
    /\ num_pages = 0
    /\ page_number = 0
    /\ futures = <<>>
    /\ future_to_page_range = <<>>
    /\ results = <<>>
    /\ yielded = <<>>
    /\ retval = [kind |-> "unset", markdown |-> <<>>]
    /\ errors = 0
    /\ file_reads = 0
    /\ bytes_io = 0

\* A page has begun, the interpreter has set a matrix and built a path.
PaintInit ==
    /\ NoPipeline
    /\ ctm \in Matrices
    /\ cur_item = LTPage
    /\ stack = <<>>
    /\ path \in Paths
    /\ painted = FALSE
    /\ NoOutput

\* One call of paint_path(gstate, stroke, fill, evenodd, path).
PaintPath ==
    /\ ~painted
    /\ cur_item' = [cur_item EXCEPT !.objs = @ \o paint_path(ctm, path)]
    /\ painted' = TRUE
    /\ UNCHANGED <<ctm, stack, path, pageno, outfp, imagewriter, imagesummarizer,
                   summarized, received, call, runVars>>
    /\ UNCHANGED pipeVars

PaintNext == PaintPath

PaintSpec == PaintInit /\ [][PaintNext]_vars

(***************************************************************************)
(* Properties of convert.                                                  *)
(***************************************************************************)
CeilDiv(n, c) == (n + c - 1) \div c
Min(a, b) == IF a < b THEN a ELSE b
Submitted == pc \in {"assemble", "returned"}
PagesOf(f) == { p \in 0..(MaxPages + MaxChunk + 1) :
                  f.page_numbers.lo <= p /\ p < f.page_numbers.hi }

\* C1: once the submit loop is over, ceil(N/C) units were submitted; unit k
\* starts at k*C and has the pages [k*C, min((k+1)*C, N)), between 1 and C
\* of them; every page of [0, N) is in exactly one unit and no unit has a
\* page outside [0, N).
C1_UnitsPartitionPages ==
    Submitted =>
        /\ Len(futures) = CeilDiv(num_pages, chunk)
        /\ Len(future_to_page_range) = Len(futures)
        /\ \A k \in 0..(Len(futures) - 1) :
              /\ future_to_page_range[k + 1] = k * chunk
              /\ futures[k + 1].page_numbers.lo = k * chunk
              /\ futures[k + 1].page_numbers.hi = Min((k + 1) * chunk, num_pages)
              /\ Cardinality(PagesOf(futures[k + 1])) \in 1..chunk
              /\ PagesOf(futures[k + 1]) \subseteq 0..(num_pages - 1)
        /\ \A p \in 0..(num_pages - 1) :
              Cardinality({ i \in 1..Len(futures) : p \in PagesOf(futures[i]) }) = 1

\* C1 witness: three pages in chunks of two, the last unit a partial one.
C1_Witness ==
    /\ Submitted
    /\ num_pages = 3
    /\ chunk = 2
    /\ Len(futures) = 2

AllWithText ==
    \A i \in 1..Len(futures) :
        futures[i].state = "finished" /\ futures[i].text # <<>>

\* The future whose range has index s (0-based): rangeStart / C = s.
FutureOfSlot(s) == CHOOSE i \in 1..Len(futures) : future_to_page_range[i] = s * chunk

\* C2: when every unit completed with text, convert returns the units' texts
\* joined by "\n" in ascending range index, whatever order they completed in.
C2_OutputInRangeOrder ==
    (pc = "returned" /\ AllWithText) =>
        retval = DocumentConverterResult(
                     Join([s \in 1..Len(futures) |-> futures[FutureOfSlot(s - 1)].text]))

\* C2 witness: convert has returned the text of two or more units that
\* completed in an order other than their range order.
C2_Witness ==
    /\ pc = "returned"
    /\ AllWithText
    /\ Len(futures) >= 2
    /\ \E a, b \in 1..Len(yielded) : a < b /\ yielded[a] > yielded[b]
    /\ retval.kind = "DocumentConverterResult"

\* The segments the spec expects: the text of a unit that finished, the
\* empty text for a unit in one of the states lost.
ExpectedSegments(lost) ==
    [i \in 1..Len(futures) |->
        IF futures[i].state \in lost THEN <<>> ELSE futures[i].text]

OthersWithText(lost) ==
    \A i \in 1..Len(futures) :
        \/ futures[i].state \in lost
        \/ futures[i].state = "finished" /\ futures[i].text # <<>>

\* C3: a unit that timed out contributes an empty segment at its index and
\* convert returns the joined text with the other segments in place.
C3_TimeoutLeavesEmptySegment ==
    ( /\ pc = "returned"
      /\ \E i \in 1..Len(futures) : futures[i].state = "timeout"
      /\ OthersWithText({"timeout"}) )
    => retval = DocumentConverterResult(Join(ExpectedSegments({"timeout"})))

\* C4: an exception raised inside a worker leaves that unit's segment empty
\* and convert returns the text of every other unit in its position.
C4_ExceptionLeavesEmptySegment ==
    ( /\ pc = "returned"
      /\ \E i \in 1..Len(futures) : futures[i].state = "raised"
      /\ OthersWithText({"raised"}) )
    => retval = DocumentConverterResult(Join(ExpectedSegments({"raised"})))

\* C5: convert eventually returns, also when a unit never completes.
C5_ConvertEventuallyReturns == <>(pc = "returned")

\* C6: for an input that cannot be opened or parsed convert reports a
\* failure, not the text result it gives for a zero-page document.
C6_UnreadableIsFailure ==
    (pc = "returned" /\ ~doc.readable) => retval.kind # "DocumentConverterResult"

\* C7: a document of zero pages gets no unit, an empty result buffer and the
\* empty text, and no error is raised or logged.
C7_ZeroPagesEmptyText ==
    (doc.readable /\ doc.count = 0) =>
        /\ futures = <<>>
        /\ results = <<>>
        /\ errors = 0
        /\ pc = "returned" => retval = DocumentConverterResult(<<>>)

\* C7 witness: convert has returned for a readable document with no pages.
C7_Witness ==
    /\ doc.readable
    /\ doc.count = 0
    /\ pc = "returned"
    /\ retval.kind = "DocumentConverterResult"


(***************************************************************************)
(* Properties of paint_path.                                               *)
(***************************************************************************)
Added == cur_item.objs
Signature(p) == shape_of(p)
StartsWithMoveTo(p) == Len(p) >= 1 /\ p[1].op = "m"
SingleSubpath(p) == StartsWithMoveTo(p) /\ CountM(Signature(p)) = 1

\* The device-space point of each operator of a subpath; "h" is at the start.
DevicePoints(m, p) ==
    [i \in 1..Len(p) |->
        apply_matrix_pt(m, IF p[i].op = "h" THEN Last2(p[1].args) ELSE Last2(p[i].args))]

\* A signature of more than three operators ends in "lh" and the "l" lands
\* on the start point.
Collapsible(m, p) ==
    /\ Len(p) > 3
    /\ p[Len(p) - 1].op = "l"
    /\ p[Len(p)].op = "h"
    /\ DevicePoints(m, p)[Len(p) - 1] = DevicePoints(m, p)[1]

\* p without its i-th segment
Without(p, i) == SubSeq(p, 1, i - 1) \o SubSeq(p, i + 1, Len(p))

NormSignature(m, p) ==
    IF Collapsible(m, p) THEN Signature(Without(p, Len(p) - 1)) ELSE Signature(p)
NormPoints(m, p) ==
    IF Collapsible(m, p)
    THEN SubSeq(DevicePoints(m, p), 1, Len(p) - 1)
    ELSE DevicePoints(m, p)

\* The two axis-aligned right-angle patterns on points 0..3.
RightAngled(P) ==
    LET x(i) == P[i + 1][1]
        y(i) == P[i + 1][2]
    IN  \/ x(0) = x(1) /\ y(1) = y(2) /\ x(2) = x(3) /\ y(3) = y(0)
        \/ y(0) = y(1) /\ x(1) = x(2) /\ y(2) = y(3) /\ x(3) = x(0)

\* C8: painting a single subpath that starts with a moveto appends exactly
\* one primitive: a Line from point 0 to point 1 for the normalized
\* signature ml or mlh; a Rectangle with corners point 0 and point 2 for
\* mlllh or mllll with point 4 = point 0 and a right-angle pattern; a Curve
\* with all the points otherwise.  Normalized: after the redundant-l drop.
C8_SubpathClassification ==
    (painted /\ SingleSubpath(path)) =>
        LET sig == NormSignature(ctm, path)
            P == NormPoints(ctm, path)
        IN  /\ Len(Added) = 1
            /\ IF sig \in {<<"m", "l">>, <<"m", "l", "h">>}
               THEN Added[1].kind = "LTLine" /\ Added[1].pts = <<P[1], P[2]>>
               ELSE IF /\ sig \in {<<"m", "l", "l", "l", "h">>, <<"m", "l", "l", "l", "l">>}
                       /\ P[5] = P[1]
                       /\ RightAngled(P)
               THEN Added[1].kind = "LTRect" /\ Added[1].pts = <<P[1], P[3]>>
               ELSE Added[1].kind = "LTCurve" /\ Added[1].pts = P

\* C8 witness: a closed quadrilateral whose device-space corners are not at
\* right angles has been painted and became a Curve of five points.
C8_Witness ==
    /\ painted
    /\ Signature(path) = <<"m", "l", "l", "l", "h">>
    /\ ~Collapsible(ctm, path)
    /\ ~RightAngled(DevicePoints(ctm, path))
    /\ Cardinality({ DevicePoints(ctm, path)[i] : i \in 1..4 }) = 4
    /\ Len(Added) = 1
    /\ Added[1].kind = "LTCurve"

\* The subpaths of p, split at each moveto, from position i on.
RECURSIVE Subpaths(_, _)
Subpaths(p, i) ==
    IF i > Len(p) THEN <<>>
    ELSE IF p[i].op = "m"
         THEN <<SubSeq(p, i, RunEnd(Signature(p), i + 1) - 1)>> \o Subpaths(p, i + 1)
         ELSE Subpaths(p, i + 1)

\* What painting each of the subpaths on its own appends, in order.
RECURSIVE PaintEach(_, _)
PaintEach(m, subs) ==
    IF subs = <<>> THEN <<>>
    ELSE paint_path(m, subs[1]) \o PaintEach(m, Tail(subs))

HasOperator(sp) == Len(sp) >= 2

\* C9 as claimed: a path with k >= 2 movetos appends k primitives, in
\* subpath order, each the one its subpath gives when painted on its own.
C9_OnePrimitivePerMoveTo ==
    (painted /\ CountM(Signature(path)) >= 2) =>
        /\ Len(Added) = CountM(Signature(path))
        /\ Added = PaintEach(ctm, Subpaths(path, 1))

\* C9 amended: a path that starts with a moveto and has two or more movetos
\* appends one primitive for each moveto that is followed by at least one
\* other operator before the next moveto, in subpath order, each the one
\* its subpath gives when painted on its own; a moveto directly followed by
\* a moveto, or ending the path, appends nothing.
C9_OnePrimitivePerDrawnSubpath ==
    (painted /\ StartsWithMoveTo(path) /\ CountM(Signature(path)) >= 2) =>
        LET drawn == SelectSeq(Subpaths(path, 1), HasOperator)
        IN  /\ Len(Added) = Len(drawn)
            /\ Added = PaintEach(ctm, drawn)

\* C9 witness: one call painted a line and then a curve.
C9_Witness ==
    /\ painted
    /\ Signature(path) = <<"m", "l", "m", "l", "l">>
    /\ Len(Added) = 2
    /\ Added[1].kind = "LTLine"
    /\ Added[2].kind = "LTCurve"

SamePrimitive(a, b) ==
    /\ Len(a) = 1
    /\ Len(b) = 1
    /\ a[1].kind = b[1].kind
    /\ a[1].pts = b[1].pts

\* C10 as claimed: for all points, m,l,l,l,h whose point before h is the
\* start point paints the same primitive as the subpath written m,l,l,h.
C10_CollapseForAllPoints ==
    ( /\ painted
      /\ Signature(path) = <<"m", "l", "l", "l", "h">>
      /\ Last2(path[4].args) = Last2(path[1].args) )
    => SamePrimitive(Added, paint_path(ctm, Without(path, 4)))

\* C10 amended: in a signature of more than three operators a trailing l
\* that lands on the start point (in device space) right before h is
\* removed once: the subpath paints the same primitive as the subpath
\* written without that l, provided the shorter subpath does not itself
\* end in such an l (for m,l,l,l,h: the second l does not land on the
\* start point); m,l,h keeps its l and is a Line.
C10_CollapseOnce ==
    /\ ( /\ painted
         /\ SingleSubpath(path)
         /\ Collapsible(ctm, path)
         /\ ~Collapsible(ctm, Without(path, Len(path) - 1)) )
       => SamePrimitive(Added, paint_path(ctm, Without(path, Len(path) - 1)))
    /\ (painted /\ Signature(path) = <<"m", "l", "h">>)
       => /\ Len(Added) = 1
          /\ Added[1].kind = "LTLine"
          /\ Added[1].pts = <<DevicePoints(ctm, path)[1], DevicePoints(ctm, path)[2]>>

\* C10 witness: m,l,l,l,h with the third l on the start point and the
\* second l elsewhere was painted as the four-point curve of m,l,l,h.
C10_Witness ==
    /\ painted
    /\ Signature(path) = <<"m", "l", "l", "l", "h">>
    /\ Collapsible(ctm, path)
    /\ ~Collapsible(ctm, Without(path, 4))
    /\ Len(Added) = 1
    /\ Added[1].kind = "LTCurve"
    /\ Len(Added[1].pts) = 4

\* The affine map of matrix m applied to the point v of the path.
DeviceSpace(m, v) ==
    <<m[1] * v[1] + m[3] * v[2] + m[5], m[2] * v[1] + m[4] * v[2] + m[6]>>

\* The terminal point of each operator as written in the path, and mapped.
PathPoints(p) ==
    [i \in 1..Len(p) |-> IF p[i].op = "h" THEN Last2(p[1].args) ELSE Last2(p[i].args)]
MappedPoints(m, p) == [i \in 1..Len(p) |-> DeviceSpace(m, PathPoints(p)[i])]

\* Five points that close a loop with one of the right-angle patterns.
ClosedRightAngled(P) == Len(P) = 5 /\ P[5] = P[1] /\ RightAngled(P)

\* C16: a Rectangle is produced only when the points after the transform
\* close a loop with the axis-aligned right-angle pattern; a path that is
\* such a rectangle before the transform but not after it becomes a Curve.
C16_RectangleInDeviceSpace ==
    (painted /\ SingleSubpath(path)) =>
        /\ Len(Added) = 1
        /\ Added[1].kind = "LTRect" =>
              \/ ClosedRightAngled(MappedPoints(ctm, path))
              \/ /\ Len(path) = 6
                 /\ ClosedRightAngled(SubSeq(MappedPoints(ctm, path), 1, 5))
        /\ ( /\ ClosedRightAngled(PathPoints(path))
             /\ ~ClosedRightAngled(MappedPoints(ctm, path)) )
           => Added[1].kind = "LTCurve"

\* C16 witness: the unit square, sheared, was painted and became a Curve.
C16_Witness ==
    /\ painted
    /\ ctm = Shear
    /\ Signature(path) = <<"m", "l", "l", "l", "h">>
    /\ ClosedRightAngled(PathPoints(path))
    /\ Cardinality({ PathPoints(path)[i] : i \in 1..4 }) = 4
    /\ ~ClosedRightAngled(MappedPoints(ctm, path))
    /\ Len(Added) = 1
    /\ Added[1].kind = "LTCurve"

\* C20: convert reads the document bytes once; every unit is handed a
\* stream object of its own, built for it: no stream is handed to two units
\* and the caller's stream to none.
C20_OneStreamPerUnit ==
    /\ file_reads <= 1
    /\ pc # "start" => file_reads = 1
    /\ \A i \in 1..Len(futures) :
          /\ futures[i].stream # FileStream
          /\ futures[i].stream.obj = "BytesIO"
          /\ \A j \in 1..Len(futures) : i # j => futures[i].stream # futures[j].stream

\* C20 witness: two units are running at the same time.
C20_Witness ==
    /\ Len(futures) >= 2
    /\ futures[1].state = "running"
    /\ futures[2].state = "running"
    /\ futures[1].stream # futures[2].stream

(***************************************************************************)
(* Part III.  TextConverter, utils/converter.py: the device methods the    *)
(* page interpreter calls, and receive_layout, which writes a finished     *)
(* page.  A device is the record of the fields of one TextConverter; a     *)
(* method is an operator from the device before the call to the device     *)
(* after it.  A method that raises leaves in call.raised the name of the   *)
(* exception.  laparams is None, as convert leaves it, so end_page runs no *)
(* layout analysis.                                                        *)
(***************************************************************************)
Digits == <<"0", "1", "2", "3", "4", "5", "6", "7", "8", "9">>

\* "%d" % n, for n >= 0.
RECURSIVE Decimal(_)
Decimal(n) ==
    IF n < 10 THEN <<Digits[n + 1]>>
    ELSE Decimal(n \div 10) \o <<Digits[(n % 10) + 1]>>

\* cur_item before the first begin_page: the attribute is not set.
Unset == [kind |-> "unset", objs |-> <<>>]

\* mult_matrix(m1, m0), the composition of m1 with the enclosing m0.
mult_matrix(m1, m0) ==
    <<m0[1] * m1[1] + m0[3] * m1[2], m0[2] * m1[1] + m0[4] * m1[2],
      m0[1] * m1[3] + m0[3] * m1[4], m0[2] * m1[3] + m0[4] * m1[4],
      m0[1] * m1[5] + m0[3] * m1[6] + m0[5],
      m0[2] * m1[5] + m0[4] * m1[6] + m0[6]>>

Abs(n) == IF n < 0 THEN -n ELSE n

\* Layout items.  Containers keep their children in objs.
LTPageOf(pageid, bbox) == [kind |-> "LTPage", pageid |-> pageid, bbox |-> bbox, objs |-> <<>>]
LTFigure(name, matrix) == [kind |-> "LTFigure", name |-> name, matrix |-> matrix, objs |-> <<>>]
LTImage(name) == [kind |-> "LTImage", name |-> name]
LTChar(text, textwidth, fontsize, scaling) ==
    [kind |-> "LTChar", text |-> text, adv |-> textwidth * fontsize * scaling]
LTAnno(text) == [kind |-> "LTAnno", text |-> text]
LTTextLine(objs) == [kind |-> "LTTextLine", objs |-> objs]
LTTextBox(objs) == [kind |-> "LTTextBox", objs |-> objs]

\* isinstance(item, LTContainer) and isinstance(item, LTText).
IsLTContainer(item) == item.kind \in {"LTPage", "LTFigure", "LTTextBox", "LTTextLine"}
IsLTText(item) == item.kind \in {"LTChar", "LTAnno", "LTTextBox", "LTTextLine"}

\* LTContainer.add.
add(container, item) == [container EXCEPT !.objs = Append(@, item)]

\* The call of method op returns value v / raises exception exc.
Returns(d, op, v) == [d EXCEPT !.call = [op |-> op, returned |-> v, raised |-> ""]]
Raises(d, op, exc) == [d EXCEPT !.call = [op |-> op, returned |-> <<>>, raised |-> exc]]

\* showpageno keeps its default: extract_text_to_fp does not pass it.
showpageno == FALSE

\* TextConverter.write_text on a text stream.
write_text(d, text) == [d EXCEPT !.outfp = @ \o text]

\* ImageWriter.export_image(item): the name of the file written to outdir.
export_image(item) == item.name

\* ImageSummarizer.summarize_file(item_path)["response"], when it returns.
Description(item_path) == <<"[", item_path[2], "]">>

\* The LTImage branch of render.  The path handed to the hook is read off
\* self.imagewriter, also when there is none.
render_image_item(d, item) ==
    LET item_name == IF d.imagewriter THEN export_image(item) ELSE "None"
        item_path == <<"outdir", item_name>>
        asked == [d EXCEPT !.summarized = Append(@, item_path)]
    IN  IF d.imagesummarizer = "None" THEN d
        ELSE IF ~d.imagewriter THEN Raises(d, "receive_layout", "AttributeError")
        ELSE IF d.imagesummarizer = "ImageSummarizerFailing"
             THEN Raises(asked, "receive_layout", "Exception")
        ELSE write_text(asked, <<"\n">> \o Description(item_path))

\* render(item), lines 338-355.  An exception ends the walk.
RECURSIVE render(_, _)
RECURSIVE render_children(_, _)
render_children(d, objs) ==
    IF objs = <<>> \/ d.call.raised # "" THEN d
    ELSE render_children(render(d, Head(objs)), Tail(objs))

render(d, item) ==
    LET walked == IF IsLTContainer(item) THEN render_children(d, item.objs)
                  ELSE IF IsLTText(item) THEN write_text(d, item.text)
                  ELSE d
    IN  IF walked.call.raised # "" THEN walked
        ELSE IF item.kind = "LTTextBox" THEN write_text(walked, <<"\n">>)
        ELSE IF item.kind = "LTImage" THEN render_image_item(walked, item)
        ELSE walked

\* The page is rendered and no page break is written after it.
receive_layout_no_page_break(d, ltpage) ==
    render([Returns(d, "receive_layout", <<>>) EXCEPT !.received = @ + 1], ltpage)

\* TextConverter.receive_layout, lines 337-360.
receive_layout(d, ltpage) ==
    LET called == [Returns(d, "receive_layout", <<>>) EXCEPT !.received = @ + 1]
        headed == IF showpageno
                  THEN write_text(called, <<"Page ">> \o Decimal(ltpage.pageid) \o <<"\n">>)
                  ELSE called
        rendered == render(headed, ltpage)
    IN  IF rendered.call.raised # "" THEN rendered
        ELSE write_text(rendered, <<"\f">>)

\* TextConverter.__init__: a device that has not begun a page.
TextConverter(m, iw, hook) ==
    [ctm |-> m, cur_item |-> Unset, stack |-> <<>>, pageno |-> 1, outfp |-> <<>>,
     imagewriter |-> iw, imagesummarizer |-> hook, summarized |-> <<>>,
     received |-> 0, call |-> NoCall]

\* page.mediabox of every page.
MediaBox == <<0, 0, 1, 1>>

\* begin_page, lines 68-73.  The stack is left as it is.
begin_page(d, m) ==
    LET p0 == apply_matrix_pt(m, <<MediaBox[1], MediaBox[2]>>)
        p1 == apply_matrix_pt(m, <<MediaBox[3], MediaBox[4]>>)
        mediabox == <<0, 0, Abs(p0[1] - p1[1]), Abs(p0[2] - p1[2])>>
    IN  [Returns(d, "begin_page", <<>>) EXCEPT !.cur_item = LTPageOf(d.pageno, mediabox)]

\* end_page without its first assertion.
end_page_any_stack(d) ==
    IF d.cur_item.kind = "unset" THEN Raises(d, "end_page", "AttributeError")
    ELSE IF d.cur_item.kind # "LTPage" THEN Raises(d, "end_page", "AssertionError")
    ELSE LET emitted == receive_layout([d EXCEPT !.pageno = @ + 1], d.cur_item)
         IN  IF emitted.call.raised # "" THEN [emitted EXCEPT !.call.op = "end_page"]
             ELSE Returns(emitted, "end_page", <<>>)

\* end_page, lines 75-81.  An exception of receive_layout leaves the call
\* as receive_layout recorded it.
end_page(d) ==
    IF d.stack # <<>> THEN Raises(d, "end_page", "AssertionError")
    ELSE IF d.cur_item.kind = "unset" THEN Raises(d, "end_page", "AttributeError")
    ELSE IF d.cur_item.kind # "LTPage" THEN Raises(d, "end_page", "AssertionError")
    ELSE LET emitted == receive_layout([d EXCEPT !.pageno = @ + 1], d.cur_item)
         IN  IF emitted.call.raised # "" THEN [emitted EXCEPT !.call.op = "end_page"]
             ELSE Returns(emitted, "end_page", <<>>)

\* begin_figure, lines 83-85.
begin_figure(d, name, matrix) ==
    IF d.cur_item.kind = "unset" THEN Raises(d, "begin_figure", "AttributeError")
    ELSE [Returns(d, "begin_figure", <<>>) EXCEPT
             !.stack = Append(@, d.cur_item),
             !.cur_item = LTFigure(name, mult_matrix(matrix, d.ctm))]

\* An end_figure with no figure open is ignored.
end_figure_tolerant(d) ==
    IF d.cur_item.kind = "unset" THEN Raises(d, "end_figure", "AttributeError")
    ELSE IF d.cur_item.kind # "LTFigure" THEN Returns(d, "end_figure", <<>>)
    ELSE IF d.stack = <<>> THEN Raises(d, "end_figure", "IndexError")
    ELSE [Returns(d, "end_figure", <<>>) EXCEPT
             !.stack = SubSeq(@, 1, Len(@) - 1),
             !.cur_item = add(d.stack[Len(d.stack)], d.cur_item)]

\* end_figure, lines 87-91.
end_figure(d) ==
    IF d.cur_item.kind = "unset" THEN Raises(d, "end_figure", "AttributeError")
    ELSE IF d.cur_item.kind # "LTFigure" THEN Raises(d, "end_figure", "AssertionError")
    ELSE IF d.stack = <<>> THEN Raises(d, "end_figure", "IndexError")
    ELSE [Returns(d, "end_figure", <<>>) EXCEPT
             !.stack = SubSeq(@, 1, Len(@) - 1),
             !.cur_item = add(d.stack[Len(d.stack)], d.cur_item)]

\* PDFLayoutAnalyzer.render_image, lines 93-100.
PDFConverter_render_image(d, name) ==
    IF d.cur_item.kind = "unset" THEN Raises(d, "render_image", "AttributeError")
    ELSE IF d.cur_item.kind # "LTFigure" THEN Raises(d, "render_image", "AssertionError")
    ELSE [Returns(d, "render_image", <<>>) EXCEPT !.cur_item = add(@, LTImage(name))]

\* The image is recorded whether or not there is an image writer.
render_image_always(d, name) == PDFConverter_render_image(d, name)

\* TextConverter.render_image, lines 365-367.
render_image(d, name) ==
    IF d.imagewriter THEN PDFConverter_render_image(d, name)
    ELSE Returns(d, "render_image", <<>>)

\* TextConverter inherits paint_path instead of overriding it.
TextConverter_paint_path_inherited(d, p) ==
    IF d.cur_item.kind = "unset" /\ paint_path(d.ctm, p) # <<>>
    THEN Raises(d, "paint_path", "AttributeError")
    ELSE [Returns(d, "paint_path", <<>>) EXCEPT !.cur_item.objs = @ \o paint_path(d.ctm, p)]

\* TextConverter.paint_path, lines 369-377.
TextConverter_paint_path(d, p) == Returns(d, "paint_path", <<>>)

\* A font is the set of the cids it can decode; to_unichr raises
\* PDFUnicodeNotDefined for the others.
Glyphs == <<"A", "B", "C", "D">>
to_unichr(font, cid) == <<Glyphs[(cid % 4) + 1]>>
char_width(font, cid) == cid + 1

\* The placeholder is the empty string.
handle_undefined_char_empty(font, cid) == <<>>

\* handle_undefined_char, lines 253-255.
handle_undefined_char(font, cid) ==
    <<"(", "c", "i", "d", ":">> \o Decimal(cid) \o <<")">>

\* render_char, lines 220-251.
render_char(d, font, fontsize, scaling, cid) ==
    LET text == IF cid \in font THEN to_unichr(font, cid)
                ELSE handle_undefined_char(font, cid)
        textwidth == char_width(font, cid)
        item == LTChar(text, textwidth, fontsize, scaling)
    IN  IF d.cur_item.kind = "unset" THEN Raises(d, "render_char", "AttributeError")
        ELSE [Returns(d, "render_char", <<item.adv>>) EXCEPT
                 !.cur_item = add(@, item)]

(***************************************************************************)
(* The device driven through its methods: any method may be called at any  *)
(* time, and a call that raises leaves the device to its caller.           *)
(***************************************************************************)
Device ==
    [ctm |-> ctm, cur_item |-> cur_item, stack |-> stack, pageno |-> pageno,
     outfp |-> outfp, imagewriter |-> imagewriter,
     imagesummarizer |-> imagesummarizer, summarized |-> summarized,
     received |-> received, call |-> call]

\* The device after the call is d.
Becomes(d) ==
    /\ ctm' = d.ctm
    /\ cur_item' = d.cur_item
    /\ stack' = d.stack
    /\ pageno' = d.pageno
    /\ outfp' = d.outfp
    /\ imagewriter' = d.imagewriter
    /\ imagesummarizer' = d.imagesummarizer
    /\ summarized' = d.summarized
    /\ received' = d.received
    /\ call' = d.call

\* The number of layout items in a tree.
RECURSIVE Size(_)
RECURSIVE SizeAll(_)
SizeAll(objs) == IF objs = <<>> THEN 0 ELSE Size(Head(objs)) + SizeAll(Tail(objs))
Size(item) == IF IsLTContainer(item) THEN 1 + SizeAll(item.objs) ELSE 1

\* The items the device holds, in cur_item and on the stack, beyond the
\* first page.
Recorded(d) == Size(d.cur_item) + SizeAll(d.stack) - 1

Hooks == {"None", "ImageSummarizer", "ImageSummarizerFailing"}
DeviceMatrices == {Shear}
FigureNames == {"Fm0"}
ImageNames == {"Im0"}
Cids == {0, 12}
Fonts == { {0} }
FontSizes == {2}
Scalings == {1}
DevicePaths ==
    { <<>>,
      << [op |-> "m", args |-> <<0, 0>>], [op |-> "l", args |-> <<1, 0>>] >>,
      << [op |-> "m", args |-> <<0, 0>>], [op |-> "l", args |-> <<1, 0>>],
         [op |-> "l", args |-> <<1, 1>>] >>,
      << [op |-> "m", args |-> <<0, 0>>], [op |-> "l", args |-> <<1, 0>>],
         [op |-> "l", args |-> <<1, 1>>], [op |-> "l", args |-> <<0, 1>>],
         [op |-> "h", args |-> <<>>] >> }

DeviceInit ==
    /\ NoPipeline
    /\ NoExtract
    /\ path = <<>>
    /\ painted = FALSE
    /\ \E m \in DeviceMatrices, iw \in BOOLEAN, hook \in Hooks :
          LET d == TextConverter(m, iw, hook)
          IN  /\ ctm = d.ctm
              /\ cur_item = d.cur_item
              /\ stack = d.stack
              /\ pageno = d.pageno
              /\ outfp = d.outfp
              /\ imagewriter = d.imagewriter
              /\ imagesummarizer = d.imagesummarizer
              /\ summarized = d.summarized
              /\ received = d.received
              /\ call = d.call

BeginPage ==
    /\ Becomes(begin_page(Device, ctm))
    /\ UNCHANGED <<path, painted, runVars, pipeVars>>

EndPage ==
    /\ pageno <= MaxPageno
    /\ Becomes(end_page(Device))
    /\ UNCHANGED <<path, painted, runVars, pipeVars>>

BeginFigure ==
    /\ Recorded(Device) < MaxItems
    /\ \E name \in FigureNames, matrix \in {Identity} :
          Becomes(begin_figure(Device, name, matrix))
    /\ UNCHANGED <<path, painted, runVars, pipeVars>>

EndFigure ==
    /\ Becomes(end_figure(Device))
    /\ UNCHANGED <<path, painted, runVars, pipeVars>>

RenderImage ==
    /\ Recorded(Device) < MaxItems
    /\ \E name \in ImageNames : Becomes(render_image(Device, name))
    /\ UNCHANGED <<path, painted, runVars, pipeVars>>

RenderChar ==
    /\ Recorded(Device) < MaxItems
    /\ \E font \in Fonts, fontsize \in FontSizes, scaling \in Scalings, cid \in Cids :
          Becomes(render_char(Device, font, fontsize, scaling, cid))
    /\ UNCHANGED <<path, painted, runVars, pipeVars>>

TextPaintPath ==
    /\ Recorded(Device) < MaxItems
    /\ \E p \in DevicePaths :
          Becomes(TextConverter_paint_path(Device, p))
    /\ UNCHANGED <<path, painted, runVars, pipeVars>>

DeviceNext ==
    \/ BeginPage
    \/ EndPage
    \/ BeginFigure
    \/ EndFigure
    \/ RenderImage
    \/ RenderChar
    \/ TextPaintPath

DeviceSpec == DeviceInit /\ [][DeviceNext]_vars

(***************************************************************************)
(* receive_layout on a finished page tree.  The tree is the argument of    *)
(* the call: a Page whose children are text boxes, characters, drawing     *)
(* primitives and figures.                                                 *)
(***************************************************************************)
CharOf(c) == LTChar(<<c>>, 1, 1, 1)
BoxOf(s) == LTTextBox(<<LTTextLine([i \in 1..Len(s) |-> CharOf(s[i])])>>)

\* The primitives PDFLayoutAnalyzer.paint_path records: a Line, a Curve and
\* a Rectangle.
Primitives == { paint_path(Identity, p)[1] : p \in DevicePaths \ {<<>>} }

PageItems ==
    { BoxOf(<<"A", "B">>), BoxOf(<<"C", "D">>),
      LTTextBox(<<LTTextLine(<<CharOf("E")>>), LTTextLine(<<CharOf("F"), LTAnno(<<"\n">>)>>)>>),
      CharOf("G"),
      [LTFigure("Fm0", Identity) EXCEPT !.objs = <<LTImage("Im0")>>],
      [LTFigure("Fm1", Identity) EXCEPT !.objs = <<CharOf("H")>>] }
      \cup Primitives

RECURSIVE ChildSeqs(_)
ChildSeqs(n) ==
    IF n = 0 THEN { <<>> }
    ELSE ChildSeqs(n - 1)
           \cup { Append(s, x) : s \in { t \in ChildSeqs(n - 1) : Len(t) = n - 1 }, x \in PageItems }

PageTrees == { [LTPageOf(1, MediaBox) EXCEPT !.objs = s] : s \in ChildSeqs(MaxChildren) }

RenderInit ==
    /\ NoPipeline
    /\ NoExtract
    /\ path = <<>>
    /\ painted = FALSE
    /\ ctm = Identity
    /\ cur_item \in PageTrees
    /\ stack = <<>>
    /\ pageno = 1
    /\ outfp = <<>>
    /\ imagewriter \in BOOLEAN
    /\ imagesummarizer \in Hooks
    /\ summarized = <<>>
    /\ received = 0
    /\ call = NoCall

\* One call of receive_layout(ltpage).
ReceiveLayout ==
    /\ received = 0
    /\ Becomes(receive_layout(Device, cur_item))
    /\ UNCHANGED <<path, painted, runVars, pipeVars>>

RenderNext == ReceiveLayout

RenderSpec == RenderInit /\ [][RenderNext]_vars

(***************************************************************************)
(* extract_text, utils/high_level.py lines 26-137.  The content of a page  *)
(* is the sequence of device calls the interpreter makes between           *)
(* begin_page and end_page.                                                *)
(***************************************************************************)
Instr(op) == [op |-> op, cid |-> 0]
CharInstr(cid) == [op |-> "render_char", cid |-> cid]

\* One device call of the interpreter.
execute(d, instr) ==
    CASE instr.op = "begin_figure" -> begin_figure(d, "Fm0", Identity)
      [] instr.op = "end_figure" -> end_figure(d)
      [] instr.op = "render_image" -> render_image(d, "Im0")
      [] instr.op = "paint_path" -> TextConverter_paint_path(d, <<>>)
      [] OTHER -> render_char(d, {0}, 2, 1, instr.cid)

\* The calls of a page content, up to the first that raises.
RECURSIVE render_contents(_, _)
render_contents(d, instrs) ==
    IF instrs = <<>> \/ d.call.raised # "" THEN d
    ELSE render_contents(execute(d, Head(instrs)), Tail(instrs))

\* interpreter.process_page(page), line 114: begin_page, the content,
\* end_page; an exception of any of them leaves process_page.
process_page(d, content) ==
    LET drawn == render_contents(begin_page(d, d.ctm), content)
    IN  IF drawn.call.raised # "" THEN drawn ELSE end_page(drawn)

PageContents ==
    { <<CharInstr(0)>>,
      <<CharInstr(12), Instr("paint_path")>>,
      <<Instr("begin_figure"), Instr("render_image"), Instr("end_figure"), CharInstr(0)>>,
      <<CharInstr(0), Instr("begin_figure"), CharInstr(12)>>,
      <<CharInstr(0), Instr("end_figure")>> }

RECURSIVE Ranges(_)
Ranges(n) ==
    IF n = 0 THEN { <<>> }
    ELSE Ranges(n - 1)
           \cup { Append(s, x) : s \in { t \in Ranges(n - 1) : Len(t) = n - 1 }, x \in PageContents }

\* extract_text(fp, page_numbers=..., output_dir=...): lines 75-100.  The
\* image hook is always built; the image writer only for an output_dir.
ExtractInit ==
    /\ NoPipeline
    /\ path = <<>>
    /\ painted = FALSE
    /\ get_pages \in Ranges(MaxRangePages)
    /\ processed = 0
    /\ extracted = [kind |-> "running", text |-> <<>>]
    /\ ctm = Identity
    /\ cur_item = Unset
    /\ stack = <<>>
    /\ pageno = 1
    /\ outfp = <<>>
    /\ imagewriter \in BOOLEAN
    /\ imagesummarizer \in {"ImageSummarizer", "ImageSummarizerFailing"}
    /\ summarized = <<>>
    /\ received = 0
    /\ call = NoCall

\* Lines 105-114: one iteration of the page loop that returns.
ProcessPage ==
    /\ extracted.kind = "running"
    /\ processed < Len(get_pages)
    /\ LET d == process_page(Device, get_pages[processed + 1])
       IN  /\ d.call.raised = ""
           /\ Becomes(d)
    /\ processed' = processed + 1
    /\ UNCHANGED <<path, painted, get_pages, extracted, pipeVars>>

\* Lines 105-114: the iteration raises; nothing catches the exception in
\* extract_text_to_fp or extract_text.
ProcessPageRaises ==
    /\ extracted.kind = "running"
    /\ processed < Len(get_pages)
    /\ LET d == process_page(Device, get_pages[processed + 1])
       IN  /\ d.call.raised # ""
           /\ Becomes(d)
           /\ extracted' = [kind |-> "raised", text |-> <<>>]
    /\ UNCHANGED <<path, painted, get_pages, processed, pipeVars>>

\* Lines 116 and 136-137: device.close(), return outfp.getvalue().
ExtractReturn ==
    /\ extracted.kind = "running"
    /\ processed = Len(get_pages)
    /\ extracted' = [kind |-> "returned", text |-> outfp]
    /\ UNCHANGED <<ctm, cur_item, stack, pageno, outfp, imagewriter, imagesummarizer,
                   summarized, received, call>>
    /\ UNCHANGED <<path, painted, get_pages, processed, pipeVars>>

ExtractNext ==
    \/ ProcessPage
    \/ ProcessPageRaises
    \/ ExtractReturn

ExtractSpec == ExtractInit /\ [][ExtractNext]_vars

(***************************************************************************)
(* Properties of the TextConverter device.                                 *)
(***************************************************************************)
IsPrimitive(item) == item.kind \in {"LTLine", "LTRect", "LTCurve"}

RECURSIVE HasPrimitive(_)
HasPrimitive(item) ==
    \/ IsPrimitive(item)
    \/ /\ IsLTContainer(item)
       /\ \E i \in 1..Len(item.objs) : HasPrimitive(item.objs[i])

LastChild(item) == item.objs[Len(item.objs)]

\* C13: TextConverter.paint_path changes neither the current container and
\* its children, nor the stack, nor the page number, for every path; no
\* Line, Rectangle or Curve is in any tree the device holds; a render_char
\* that returns has appended a Character to the current container.
C13_PaintPathIsNoOp ==
    /\ [](~HasPrimitive(cur_item) /\ \A i \in 1..Len(stack) : ~HasPrimitive(stack[i]))
    /\ [][ /\ call'.op = "paint_path" =>
                /\ call'.raised = ""
                /\ cur_item' = cur_item
                /\ stack' = stack
                /\ pageno' = pageno
                /\ outfp' = outfp
           /\ (call'.op = "render_char" /\ call'.raised = "") =>
                /\ Len(cur_item'.objs) = Len(cur_item.objs) + 1
                /\ LastChild(cur_item').kind = "LTChar"
                /\ SubSeq(cur_item'.objs, 1, Len(cur_item.objs)) = cur_item.objs
         ]_vars

\* C13 witness: paint_path was called on a page that holds a Character.
C13_Witness ==
    /\ call.op = "paint_path"
    /\ cur_item.kind = "LTPage"
    /\ Len(cur_item.objs) = 1
    /\ cur_item.objs[1].kind = "LTChar"

\* C15: in every state with a current container, render_char of a cid the
\* font cannot decode raises nothing, appends exactly one Character whose
\* text is a non-empty placeholder, and returns that Character's advance.
C15_UndecodableGlyphPlaceholder ==
    \A font \in Fonts, fontsize \in FontSizes, scaling \in Scalings, cid \in Cids :
        (cid \notin font /\ cur_item.kind # "unset") =>
            LET after == render_char(Device, font, fontsize, scaling, cid)
            IN  /\ after.call.raised = ""
                /\ Len(after.cur_item.objs) = Len(cur_item.objs) + 1
                /\ SubSeq(after.cur_item.objs, 1, Len(cur_item.objs)) = cur_item.objs
                /\ LastChild(after.cur_item).kind = "LTChar"
                /\ LastChild(after.cur_item).text # <<>>
                /\ after.call.returned = <<LastChild(after.cur_item).adv>>
                /\ after.stack = stack
                /\ after.outfp = outfp

\* C15 witness: render_char has appended the placeholder of cid 12.
C15_Witness ==
    /\ call.op = "render_char"
    /\ call.raised = ""
    /\ Len(cur_item.objs) >= 1
    /\ LastChild(cur_item).kind = "LTChar"
    /\ LastChild(cur_item).text = <<"(", "c", "i", "d", ":", "1", "2", ")">>
    /\ call.returned = <<LastChild(cur_item).adv>>

\* C18: an end_page that returns was called with an empty stack and the Page
\* current; an end_page called with a figure open raises, emits no page,
\* writes nothing and leaves the page number.
C18_EndPageNeedsClosedFigures ==
    [][ call'.op = "end_page" =>
          /\ call'.raised = "" => (stack = <<>> /\ cur_item.kind = "LTPage")
          /\ (stack # <<>> \/ cur_item.kind = "LTFigure") =>
                /\ call'.raised = "AssertionError"
                /\ received' = received
                /\ outfp' = outfp
                /\ pageno' = pageno
      ]_vars

\* C18 witness: end_page has failed with a figure open.
C18_Witness ==
    /\ call.op = "end_page"
    /\ call.raised = "AssertionError"
    /\ cur_item.kind = "LTFigure"
    /\ Len(stack) = 1
    /\ received = 0
    /\ outfp = <<>>
    /\ pageno = 1

\* C19: after begin_page the stack is empty and the current container is a
\* Page without children, whatever the device held before.
C19_BeginPageResets ==
    [][ call'.op = "begin_page" =>
          /\ stack' = <<>>
          /\ cur_item'.kind = "LTPage"
          /\ cur_item'.objs = <<>>
      ]_vars

\* The figures that are open: the current container, if it is a Figure, and
\* the Figures on the stack.
OpenFigures ==
    Cardinality({ i \in 1..Len(stack) : stack[i].kind = "LTFigure" })
      + (IF cur_item.kind = "LTFigure" THEN 1 ELSE 0)

\* C17: begin_figure pushes the current container and makes a new, empty
\* Figure current; end_figure pops the stack into the current container and
\* appends the closed Figure as its last child; in every state the stack
\* depth is the number of open figures.
C17_StackTracksOpenFigures ==
    /\ [](Len(stack) = OpenFigures)
    /\ [][ /\ (call'.op = "begin_figure" /\ call'.raised = "") =>
                /\ stack' = Append(stack, cur_item)
                /\ cur_item'.kind = "LTFigure"
                /\ cur_item'.objs = <<>>
           /\ (call'.op = "end_figure" /\ call'.raised = "") =>
                /\ cur_item.kind = "LTFigure"
                /\ stack # <<>>
                /\ stack' = SubSeq(stack, 1, Len(stack) - 1)
                /\ cur_item' = [stack[Len(stack)] EXCEPT !.objs = Append(@, cur_item)]
         ]_vars

\* The images in a tree, and the text of a tree: the text of its leaves in
\* child order, a line break after each text box and, if images are
\* described, a line break and the description for each image.
RECURSIVE CountImages(_)
RECURSIVE CountImagesAll(_)
CountImagesAll(objs) ==
    IF objs = <<>> THEN 0 ELSE CountImages(Head(objs)) + CountImagesAll(Tail(objs))
CountImages(item) ==
    IF item.kind = "LTImage" THEN 1
    ELSE IF IsLTContainer(item) THEN CountImagesAll(item.objs)
    ELSE 0

RECURSIVE TextOf(_, _)
RECURSIVE TextOfAll(_, _)
TextOfAll(objs, described) ==
    IF objs = <<>> THEN <<>>
    ELSE TextOf(Head(objs), described) \o TextOfAll(Tail(objs), described)
TextOf(item, described) ==
    CASE item.kind = "LTTextBox" -> TextOfAll(item.objs, described) \o <<"\n">>
      [] item.kind \in {"LTPage", "LTFigure", "LTTextLine"} -> TextOfAll(item.objs, described)
      [] item.kind \in {"LTChar", "LTAnno"} -> item.text
      [] item.kind = "LTImage" ->
            IF described THEN <<"\n", "[", item.name, "]">> ELSE <<>>
      [] OTHER -> <<>>

\* C14: with a hook configured, a render_image inside a figure records the
\* image, whether or not there is an image writer, and an end_page that
\* returns has called the hook once for each image of the page and written
\* the page's text with the descriptions inline; with no hook, an end_page
\* that returns has written the page's text with nothing for the images.
C14_EveryImageDescribed ==
    [][ /\ ( /\ call'.op = "render_image"
             /\ cur_item.kind = "LTFigure"
             /\ imagesummarizer # "None" ) =>
                /\ call'.raised = ""
                /\ Len(cur_item'.objs) = Len(cur_item.objs) + 1
                /\ LastChild(cur_item').kind = "LTImage"
                /\ SubSeq(cur_item'.objs, 1, Len(cur_item.objs)) = cur_item.objs
        /\ ( /\ call'.op = "end_page"
             /\ call'.raised = ""
             /\ imagesummarizer # "None" ) =>
                /\ Len(summarized') = Len(summarized) + CountImages(cur_item)
                /\ outfp' = outfp \o TextOf(cur_item, TRUE) \o <<"\f">>
        /\ ( /\ call'.op = "end_page"
             /\ call'.raised = ""
             /\ imagesummarizer = "None" ) =>
                /\ summarized' = summarized
                /\ outfp' = outfp \o TextOf(cur_item, FALSE) \o <<"\f">>
      ]_vars

\* The children of a page that are not drawing primitives, in order.
RECURSIVE WithoutPrimitives(_)
WithoutPrimitives(objs) ==
    IF objs = <<>> THEN <<>>
    ELSE IF IsPrimitive(Head(objs)) THEN WithoutPrimitives(Tail(objs))
    ELSE <<Head(objs)>> \o WithoutPrimitives(Tail(objs))

PageBreaks(text) == Cardinality({ i \in 1..Len(text) : text[i] = "\f" })

\* C12: a receive_layout that returns has written the text of the page's
\* text leaves in depth-first child order, a line break after each text
\* box, and one page break at the end; a tree without images always
\* returns; a page whose children other than primitives are the boxes A,B
\* and C,D is written as "AB\nCD\n" and the page break.
C12_ReceiveLayoutText ==
    call.op = "receive_layout" =>
        /\ CountImages(cur_item) = 0 => call.raised = ""
        /\ call.raised = "" =>
              /\ outfp = TextOf(cur_item, imagesummarizer # "None") \o <<"\f">>
              /\ PageBreaks(outfp) = 1
              /\ received = 1
        /\ WithoutPrimitives(cur_item.objs) = <<BoxOf(<<"A", "B">>), BoxOf(<<"C", "D">>)>> =>
              outfp = <<"A", "B", "\n", "C", "D", "\n", "\f">>

\* C12 witness: the two boxes with a Line between them have been written.
C12_Witness ==
    /\ call.op = "receive_layout"
    /\ Len(cur_item.objs) = 3
    /\ cur_item.objs[1] = BoxOf(<<"A", "B">>)
    /\ cur_item.objs[2].kind = "LTLine"
    /\ cur_item.objs[3] = BoxOf(<<"C", "D">>)
    /\ outfp = <<"A", "B", "\n", "C", "D", "\n", "\f">>

(***************************************************************************)
(* Properties of extract_text.                                             *)
(***************************************************************************)
\* The figures left open by a page content, or -1 if it ends a figure
\* where none is open.
RECURSIVE Nesting(_, _)
Nesting(instrs, depth) ==
    IF instrs = <<>> THEN depth
    ELSE IF Head(instrs).op = "begin_figure" THEN Nesting(Tail(instrs), depth + 1)
    ELSE IF Head(instrs).op = "end_figure"
         THEN IF depth = 0 THEN -1 ELSE Nesting(Tail(instrs), depth - 1)
    ELSE Nesting(Tail(instrs), depth)

StructuralError(content) == Nesting(content, 0) # 0

\* What a page writes when it is the only page of its range.
PageAlone(content) ==
    process_page(TextConverter(ctm, imagewriter, imagesummarizer), content).outfp

RECURSIVE RangeWithoutBadPages(_)
RangeWithoutBadPages(contents) ==
    IF contents = <<>> THEN <<>>
    ELSE (IF StructuralError(Head(contents)) THEN <<>> ELSE PageAlone(Head(contents)))
           \o RangeWithoutBadPages(Tail(contents))

\* C11: with a working image hook, extract_text of a range returns the text
\* of the pages of the range that have no structural error, in order: a
\* page with an unterminated figure or a stray end_figure contributes
\* nothing and the other pages are still written.
C11_StructuralErrorDropsOnlyThatPage ==
    (extracted.kind \notin {"unset", "running"} /\ imagesummarizer = "ImageSummarizer") =>
        /\ extracted.kind = "returned"
        /\ extracted.text = RangeWithoutBadPages(get_pages)

\* C21: a paint_path call on a path whose first operator is not a moveto,
\* the empty path included, raises nothing and changes neither the current
\* container, nor the stack, nor the transform: no primitive is appended.
C21_InvalidPathDropped ==
    /\ [](( painted /\ ~StartsWithMoveTo(path) ) =>
             (Added = <<>> /\ stack = <<>> /\ call.raised = ""))
    /\ [][ (~painted /\ painted' /\ ~StartsWithMoveTo(path)) =>
              /\ cur_item' = cur_item
              /\ stack' = stack
              /\ ctm' = ctm
              /\ call' = call
         ]_vars

\* C21 witness: a path that starts with a lineto and contains a moveto has
\* been painted.
C21_Witness ==
    /\ painted
    /\ Signature(path) = <<"l", "m", "l">>
    /\ Added = <<>>

\* C22: an end_figure called with the Page current and the stack empty
\* raises, and leaves the stack, the current container and its children,
\* the output and the page number as they were.
C22_StrayEndFigureFatal ==
    [][ (call'.op = "end_figure" /\ cur_item.kind = "LTPage" /\ stack = <<>>) =>
          /\ call'.raised # ""
          /\ stack' = stack
          /\ cur_item' = cur_item
          /\ outfp' = outfp
          /\ pageno' = pageno
      ]_vars

\* C22 witness: end_figure has failed on a page that holds a Character.
C22_Witness ==
    /\ call.op = "end_figure"
    /\ call.raised = "AssertionError"
    /\ cur_item.kind = "LTPage"
    /\ Len(cur_item.objs) = 1
    /\ stack = <<>>

\* C23: every Line paint_path has appended has two different device-space
\* end points, and a single subpath that gave a Line has the signature ml
\* or mlh and exactly two distinct points.
C23_LineHasTwoDistinctPoints ==
    painted =>
        /\ \A i \in 1..Len(Added) :
              Added[i].kind = "LTLine" => Added[i].pts[1] # Added[i].pts[2]
        /\ (SingleSubpath(path) /\ Len(Added) = 1 /\ Added[1].kind = "LTLine") =>
              /\ Signature(path) \in {<<"m", "l">>, <<"m", "l", "h">>}
              /\ Cardinality({ MappedPoints(ctm, path)[i] : i \in 1..Len(path) }) = 2

\* The slices a paint_path call on p hands to its recursive calls.
Slices(p) ==
    IF invalid_shape(shape_of(p)) \/ CountM(shape_of(p)) <= 1 THEN <<>>
    ELSE [k \in 1..Len(finditer(shape_of(p), 1)) |-> subpath(p, finditer(shape_of(p), 1)[k])]

\* The depth of the recursion of paint_path on p, counted up to limit.
RECURSIVE Depth(_, _)
Depth(p, limit) ==
    IF limit = 0 \/ Slices(p) = <<>> THEN 0
    ELSE 1 + (CHOOSE n \in 0..limit :
                 /\ \A k \in 1..Len(Slices(p)) : Depth(Slices(p)[k], limit - 1) <= n
                 /\ \E k \in 1..Len(Slices(p)) : Depth(Slices(p)[k], limit - 1) = n)

\* C25: every slice paint_path passes to a recursive call has exactly one
\* moveto, at its first position, and is shorter than the path; so a
\* recursive call does not recurse and the recursion is at most one deep.
C25_RecursionOneLevel ==
    /\ \A k \in 1..Len(Slices(path)) :
          /\ StartsWithMoveTo(Slices(path)[k])
          /\ CountM(Signature(Slices(path)[k])) = 1
          /\ Len(Slices(path)[k]) < Len(path)
          /\ Slices(Slices(path)[k]) = <<>>
    /\ Depth(path, 3) <= 1
    /\ painted => Len(Added) = Len(Slices(path)) + (IF SingleSubpath(path) THEN 1 ELSE 0)

\* C25 witness: a path of two subpaths has been painted by two recursive
\* calls.
C25_Witness ==
    /\ painted
    /\ Signature(path) = <<"m", "l", "m", "l", "l">>
    /\ Len(Slices(path)) = 2
    /\ Depth(path, 3) = 1
    /\ Len(Added) = 2

\* C26: with no image writer no tree the device holds has an Image, the
\* hook has never been called, and every receive_layout call returns
\* without calling the hook or failing on the image writer's directory.
C26_NoImageWithoutWriter ==
    /\ [](~imagewriter =>
            /\ CountImages(cur_item) = 0
            /\ \A i \in 1..Len(stack) : CountImages(stack[i]) = 0
            /\ summarized = <<>>)
    /\ [][ (~imagewriter /\ received' # received) =>
              /\ call'.raised = ""
              /\ summarized' = summarized
         ]_vars

\* C26 witness: with a hook and no image writer, a page with a figure has
\* been written and the hook was not called.
C26_Witness ==
    /\ ~imagewriter
    /\ imagesummarizer = "ImageSummarizer"
    /\ call.op = "end_page"
    /\ call.raised = ""
    /\ received = 1
    /\ Len(cur_item.objs) = 1
    /\ cur_item.objs[1].kind = "LTFigure"
    /\ summarized = <<>>
    /\ outfp = <<"\f">>

(***************************************************************************)
(* Further properties of convert.                                          *)
(***************************************************************************)
\* C24: when every unit completed without raising, every slot of the
\* result buffer holds a string once the assembly loop is over, and convert
\* returns a text result, also when the text of some unit is empty.
C24_AllUnitsDoneGivesText ==
    (\A i \in 1..Len(futures) : futures[i].state = "finished") =>
        /\ (pc = "assemble" /\ Yielded = 1..Len(futures)) =>
              \A s \in 1..Len(results) : results[s] # None
        /\ pc = "returned" =>
              /\ retval.kind = "DocumentConverterResult"
              /\ retval.markdown = Join([s \in 1..Len(futures) |-> futures[FutureOfSlot(s - 1)].text])

=============================================================================
